---- MODULE Spec2Model ----
(***************************************************************************)
(* AI-Powered Deal Desk (src/server.py): request validation, content       *)
(* generation with static fallback, pricing tiers and response assembly.   *)
(*                                                                         *)
(* Conventions.  A Python str is a sequence of string pieces, so that      *)
(* len(), strip() and concatenation are computed and not assumed; texts    *)
(* the code inspects character by character are sequences of one-character *)
(* pieces.  A float is kept as an exact rational: multipliers in tenths,   *)
(* prices in hundredths.                                                   *)
(***************************************************************************)
EXTENDS Integers, Sequences, FiniteSets, TLC

VARIABLES
    env,            \* the process environment (os.getenv)
    quotes,         \* PricingSpec: what generate_pricing_tiers returned, per urgency
    body,           \* the JSON body of the POST /api/v1/proposals request
    pc,             \* where the request is: "idle", "calling", "done"
    request,        \* the validated ProposalRequest handed to create_proposal
    call,           \* the provider call in flight (client.chat.completions.create)
    outcome,        \* how the provider call ended
    content,        \* what generate_proposal_content returned
    pricing,        \* what generate_pricing_tiers returned to create_proposal
    now,            \* the instant read by datetime.now(timezone.utc)
    response,       \* the HTTP response
    providerCalls,  \* number of provider calls started for the request
    pricingCalls,   \* number of generate_pricing_tiers calls started for the request
    conns,          \* LoopSpec: the requests the server holds, by connection
    running         \* LoopSpec: the connection whose handler holds the event loop

\* Longest BASE_PRICE text enumerated.
MaxTextLen == 2

\* Most whitespace characters put before and after a company name.
MaxPad == 1

\* Connections open at once in LoopSpec.
MaxConns == 3

(***************************************************************************)
(* Text helpers                                                            *)
(***************************************************************************)
DigitChars == {"0", "1", "2", "3", "4", "5", "6", "7", "8", "9"}

DigitVal(c) ==
    CASE c = "0" -> 0 [] c = "1" -> 1 [] c = "2" -> 2 [] c = "3" -> 3
      [] c = "4" -> 4 [] c = "5" -> 5 [] c = "6" -> 6 [] c = "7" -> 7
      [] c = "8" -> 8 [] c = "9" -> 9

\* Characters the enumerated BASE_PRICE texts are made of.
EnvChars == {"0", "1", "5", "7", "-", " ", "a"}

RECURSIVE TextsUpTo(_)
TextsUpTo(n) ==
    IF n = 0 THEN {<<>>}
    ELSE LET S == TextsUpTo(n - 1)
         IN  S \cup {Append(t, c) : t \in {s \in S : Len(s) = n - 1}, c \in EnvChars}

\* str.strip(): leading and trailing whitespace removed.
RECURSIVE LStrip(_)
LStrip(s) == IF Len(s) > 0 /\ s[1] = " " THEN LStrip(Tail(s)) ELSE s

RECURSIVE RStrip(_)
RStrip(s) ==
    IF Len(s) > 0 /\ s[Len(s)] = " " THEN RStrip(SubSeq(s, 1, Len(s) - 1)) ELSE s

Strip(s) == RStrip(LStrip(s))

RECURSIVE DigitsValue(_)
DigitsValue(s) ==
    IF Len(s) = 0 THEN 0
    ELSE 10 * DigitsValue(SubSeq(s, 1, Len(s) - 1)) + DigitVal(s[Len(s)])

\* int(text): surrounding whitespace ignored, an optional sign, then one or
\* more digits; anything else raises ValueError.
PyInt(text) ==
    LET t      == Strip(text)
        signed == Len(t) > 0 /\ t[1] \in {"-", "+"}
        digits == IF signed THEN Tail(t) ELSE t
        isNum  == Len(digits) > 0 /\ \A i \in 1..Len(digits) : digits[i] \in DigitChars
    IN  IF isNum
        THEN [ok |-> TRUE,
              val |-> IF signed /\ t[1] = "-" THEN 0 - DigitsValue(digits)
                      ELSE DigitsValue(digits)]
        ELSE [ok |-> FALSE, val |-> 0]

(***************************************************************************)
(* Process environment                                                     *)
(***************************************************************************)
\* An environment variable is unset, or set to a text.
Unset == [set |-> FALSE, text |-> <<>>]

EnvVars == {Unset} \cup {[set |-> TRUE, text |-> t] : t \in TextsUpTo(MaxTextLen)}

\* os.getenv(name, default)
Getenv(var, default) == IF var.set THEN var.text ELSE default

DEFAULT_BASE_PRICE == <<"1", "0", "0", "0", "0">>

(***************************************************************************)
(* Arithmetic on floats kept as rationals n/d, d > 0                       *)
(***************************************************************************)
Abs(n) == IF n < 0 THEN 0 - n ELSE n

\* round(n/d): nearest integer, ties to the even one (Python 3 round()).
RoundHalfEven(n, d) ==
    LET f == n \div d
        r == n - f * d
    IN  IF 2 * r < d THEN f
        ELSE IF 2 * r > d THEN f + 1
        ELSE IF f % 2 = 0 THEN f ELSE f + 1

\* int() rounding to nearest instead of truncating.
IntOfRoundMutant(n, d) == RoundHalfEven(n, d)

\* int(n/d): truncation toward zero.
IntOf(n, d) == IF n >= 0 THEN n \div d ELSE 0 - ((0 - n) \div d)

\* round(x, 2) of x = n/d, as a number of hundredths.
Round2(n, d) == RoundHalfEven(100 * n, d)

(***************************************************************************)
(* generate_pricing_tiers                                                  *)
(***************************************************************************)
\* The multipliers with no discount for low urgency.
multipliersFlatMutant == [high |-> 12, medium |-> 10, low |-> 10]

\* multipliers, in tenths.
multipliers == [high |-> 12, medium |-> 10, low |-> 8]

\* multipliers.get(urgency, 1.0), in tenths.
MultiplierGet(urgency) ==
    IF urgency \in DOMAIN multipliers THEN multipliers[urgency] ELSE 10

StarterFeatures ==
    <<"Core platform access", "Email support", "Up to 10 users",
      "Standard integrations">>

ProfessionalFeatures ==
    <<"Everything in Starter", "Priority support", "Up to 50 users",
      "Advanced analytics", "Custom integrations", "Dedicated account manager">>

EnterpriseFeatures ==
    <<"Everything in Professional", "Unlimited users", "24/7 phone support",
      "Custom development", "SLA guarantees", "Executive business reviews">>

\* PricingTier(name, price, features, recommended); price in hundredths.
PricingTier(name, price, features, recommended) ==
    [name |-> name, price |-> price, features |-> features,
     recommended |-> recommended]

\* The tier list with the recommended flag on Starter.
TierListStarterRecommendedMutant(base_price) ==
    << PricingTier("Starter", Round2(base_price * 5, 10), StarterFeatures, TRUE),
       PricingTier("Professional", 100 * base_price, ProfessionalFeatures, FALSE),
       PricingTier("Enterprise", Round2(base_price * 20, 10), EnterpriseFeatures, FALSE) >>

\* The list returned at lines 209-247, for the adjusted base price.
TierList(base_price) ==
    << PricingTier("Starter", Round2(base_price * 5, 10), StarterFeatures, FALSE),
       PricingTier("Professional", 100 * base_price, ProfessionalFeatures, TRUE),
       PricingTier("Enterprise", Round2(base_price * 20, 10), EnterpriseFeatures, FALSE) >>

\* generate_pricing_tiers(request): raises when int() rejects BASE_PRICE,
\* otherwise returns the three tiers.
generate_pricing_tiers(urgency, basePriceVar) ==
    LET parsed == PyInt(Getenv(basePriceVar, DEFAULT_BASE_PRICE))
    IN  IF ~parsed.ok
        THEN [raised |-> TRUE, tiers |-> <<>>]
        ELSE [raised |-> FALSE,
              tiers  |-> TierList(IntOf(parsed.val * MultiplierGet(urgency), 10))]

\* Urgency values handed to generate_pricing_tiers on its own, one of them
\* outside the Literal.
UrgencyInputs == {"low", "medium", "high", "critical"}

\* No result yet.
NotQuoted == [raised |-> FALSE, tiers |-> <<>>]

vars ==
    <<env, quotes, body, pc, request, call, outcome, content, pricing, now,
      response, providerCalls, pricingCalls, conns, running>>

pipelineVars ==
    <<body, pc, request, call, outcome, content, pricing, now, response,
      providerCalls, pricingCalls>>

loopVars == <<conns, running>>

(***************************************************************************)
(* ProposalRequest: the JSON body and its validation                        *)
(***************************************************************************)
MIN_LENGTH == 2

MAX_LENGTH == 200

MAX_OPTIONAL_LENGTH == 100

MAX_LIST_ITEMS == 20

UrgencyLevel == {"low", "medium", "high"}

\* n copies of the piece c.
Rep(c, n) == [i \in 1..n |-> c]

\* A field of the JSON body: absent, or present with a value.
AbsentText == [present |-> FALSE, value |-> <<>>]

AbsentList == [present |-> FALSE, value |-> <<>>]

AbsentUrgency == [present |-> FALSE, value |-> ""]

Present(v) == [present |-> TRUE, value |-> v]

\* Company names: whitespace, letters, whitespace; the letter runs sit around
\* both length limits.
CompanyNames ==
    {Rep(" ", l) \o Rep("A", b) \o Rep(" ", t) :
        l \in 0..MaxPad, t \in 0..MaxPad,
        b \in (0..MIN_LENGTH) \cup ((MAX_LENGTH - 1)..(MAX_LENGTH + 1))}

Acme == <<"A", "c", "m", "e">>

OptionalTexts ==
    {Rep("x", n) : n \in {0, MAX_OPTIONAL_LENGTH, MAX_OPTIONAL_LENGTH + 1}}

ItemLists ==
    {Rep(<<"item">>, n) : n \in {0, 1, 2, MAX_LIST_ITEMS, MAX_LIST_ITEMS + 1}}

UrgencyTexts == UrgencyLevel \cup {"critical", "HIGH", ""}

BaseBody ==
    [company_name |-> Present(Acme), industry |-> AbsentText,
     pain_points |-> AbsentList, budget_range |-> AbsentText,
     decision_makers |-> AbsentList, competitors |-> AbsentList,
     urgency |-> AbsentUrgency]

\* BASE_PAYLOAD of tests/test_server.py, with every field present.
FullBody ==
    [company_name |-> Present(Acme), industry |-> Present(Rep("x", 0)),
     pain_points |-> Present(Rep(<<"item">>, 2)),
     budget_range |-> Present(Rep("x", MAX_OPTIONAL_LENGTH)),
     decision_makers |-> Present(Rep(<<"item">>, 2)),
     competitors |-> Present(Rep(<<"item">>, 2)),
     urgency |-> Present("high")]

\* The bodies sent: the base body with one field varied, and the full one.
Bodies ==
    {BaseBody, FullBody, [BaseBody EXCEPT !.company_name = AbsentText]}
    \cup {[BaseBody EXCEPT !.company_name = Present(n)] : n \in CompanyNames}
    \cup {[BaseBody EXCEPT !.industry = Present(x)] : x \in OptionalTexts}
    \cup {[BaseBody EXCEPT !.budget_range = Present(x)] : x \in OptionalTexts}
    \cup {[BaseBody EXCEPT !.pain_points = Present(l)] : l \in ItemLists}
    \cup {[BaseBody EXCEPT !.decision_makers = Present(l)] : l \in ItemLists}
    \cup {[BaseBody EXCEPT !.competitors = Present(l)] : l \in ItemLists}
    \cup {[BaseBody EXCEPT !.urgency = Present(u)] : u \in UrgencyTexts}

\* Field(..., min_length=2, max_length=200) on a required str: the length of
\* the value as sent.
CompanyNameAccepted(f) ==
    /\ f.present
    /\ Len(f.value) >= MIN_LENGTH
    /\ Len(f.value) <= MAX_LENGTH

\* Optional[str] = Field(default=None, max_length=100)
OptionalTextAccepted(f) == f.present => Len(f.value) <= MAX_OPTIONAL_LENGTH

\* limit_list_length with the limit off by one.
limit_list_length_off_by_one_mutant(f) ==
    f.present => ~(Len(f.value) > MAX_LIST_ITEMS + 1)

\* limit_list_length: len(v) > 20 raises ValueError.
limit_list_length(f) == f.present => ~(Len(f.value) > MAX_LIST_ITEMS)

\* urgency: UrgencyLevel = Field(default="medium")
UrgencyAccepted(f) == f.present => f.value \in UrgencyLevel

\* The fields pydantic reports as invalid.
ValidationErrors(b) ==
    {k \in {"company_name"} : ~CompanyNameAccepted(b.company_name)}
    \cup {k \in {"industry", "budget_range"} : ~OptionalTextAccepted(b[k])}
    \cup {k \in {"pain_points", "decision_makers", "competitors"} :
            ~limit_list_length(b[k])}
    \cup {k \in {"urgency"} : ~UrgencyAccepted(b.urgency)}

\* The validated model, defaults filled in.
ProposalRequest(b) ==
    [company_name |-> b.company_name.value,
     industry |-> b.industry,
     pain_points |-> b.pain_points.value,
     budget_range |-> b.budget_range,
     decision_makers |-> b.decision_makers.value,
     competitors |-> b.competitors.value,
     urgency |-> IF b.urgency.present THEN b.urgency.value ELSE "medium"]

(***************************************************************************)
(* JSON values, as json.loads returns them                                 *)
(***************************************************************************)
JMissing == [t |-> "missing"]

JNull == [t |-> "null"]

JArray == [t |-> "array"]

JStr(s) == [t |-> "string", s |-> s]

JNum(n) == [t |-> "number", n |-> n]

\* A dict with the keys of the proposal content; JMissing marks a key the
\* dict does not have.
JContent(es, so, roi, ns) ==
    [t |-> "object", executive_summary |-> es, solution_overview |-> so,
     roi_calculation |-> roi, next_steps |-> ns]

JRoi(savings, payback) ==
    [t |-> "object", annual_savings |-> savings, payback_period_months |-> payback]

EmptyContent == JContent(JMissing, JMissing, JMissing, JMissing)

EmptyRoi == JRoi(JMissing, JMissing)

\* dict.get(key, default)
DictGet(d, key, default) == IF d[key] = JMissing THEN default ELSE d[key]

(***************************************************************************)
(* The provider (client.chat.completions.create) and its outcomes          *)
(***************************************************************************)
PROVIDER_TIMEOUT == 60

\* Subclasses of OpenAIError the call raises, and an exception that is none:
\* IndexError from response.choices[0] on an empty choices list.
OpenAIErrors ==
    {"AuthenticationError", "RateLimitError", "APIConnectionError", "APITimeoutError"}

OtherErrors == {"IndexError"}

\* message.content: None, the empty string, text that is not JSON, or a JSON
\* document (given by the value it denotes).
NoText == [kind |-> "none", value |-> JNull]

EmptyText == [kind |-> "empty", value |-> JNull]

MalformedText == [kind |-> "malformed", value |-> JNull]

JsonText(v) == [kind |-> "json", value |-> v]

GoodRoi == JRoi(JNum(120000), JNum(6))

GoodContent ==
    JContent(JStr(<<"AI summary">>), JStr(<<"AI overview">>), GoodRoi,
             JStr(<<"AI next steps">>))

\* JSON documents the provider may answer with.
ProviderDocuments ==
    {GoodContent, EmptyContent, JArray, JNull, JNum(42), JStr(<<"text">>),
     [GoodContent EXCEPT !.executive_summary = JMissing],
     [GoodContent EXCEPT !.executive_summary = JNum(7)],
     [GoodContent EXCEPT !.solution_overview = JNull],
     [GoodContent EXCEPT !.next_steps = JArray],
     [GoodContent EXCEPT !.roi_calculation = JMissing],
     [GoodContent EXCEPT !.roi_calculation = EmptyRoi],
     [GoodContent EXCEPT !.roi_calculation = JStr(<<"fast">>)],
     [GoodContent EXCEPT !.roi_calculation = JRoi(JNum(120000), JMissing)]}

ErrorOutcome(e) == [kind |-> "error", error |-> e, text |-> NoText]

Completion(text) == [kind |-> "completion", error |-> "", text |-> text]

FailureOutcomes == {ErrorOutcome(e) : e \in OpenAIErrors \cup OtherErrors}

CompletionOutcomes ==
    {Completion(NoText), Completion(EmptyText), Completion(MalformedText)}
    \cup {Completion(JsonText(v)) : v \in ProviderDocuments}

\* _api_key = os.getenv("OPENAI_API_KEY", ""); client = OpenAI(api_key=_api_key)
ApiKeyConfigured(e) == Getenv(e.OPENAI_API_KEY, <<>>) # <<>>

\* Without a credential the provider answers no completion.
ProviderOutcomes(e) ==
    IF ApiKeyConfigured(e) THEN FailureOutcomes \cup CompletionOutcomes
    ELSE FailureOutcomes

\* json.loads(raw): the value, or JSONDecodeError.
JsonLoads(text) ==
    IF text.kind = "json" THEN [ok |-> TRUE, value |-> text.value]
    ELSE [ok |-> FALSE, value |-> JNull]

(***************************************************************************)
(* generate_proposal_content                                               *)
(***************************************************************************)
\* sep.join(items)
RECURSIVE Join(_, _)
Join(sep, items) ==
    IF Len(items) = 0 THEN <<>>
    ELSE IF Len(items) = 1 THEN items[1]
    ELSE items[1] \o sep \o Join(sep, Tail(items))

\* x or default, on str
StrOr(x, default) == IF x = <<>> THEN default ELSE x

PainPointsStr(req) ==
    StrOr(Join(<<", ">>, req.pain_points), <<"General efficiency improvements">>)

CompetitorsStr(req) ==
    StrOr(Join(<<", ">>, req.competitors), <<"Generic alternatives">>)

\* request.industry or 'Unknown'
OptionalOr(f, default) == IF f.present THEN StrOr(f.value, default) ELSE default

UserPrompt(req) ==
    [company |-> req.company_name,
     industry |-> OptionalOr(req.industry, <<"Unknown">>),
     pain_points |-> PainPointsStr(req),
     budget |-> OptionalOr(req.budget_range, <<"Not specified">>),
     competitors |-> CompetitorsStr(req),
     urgency |-> req.urgency]

ProviderCall(req) == [user_prompt |-> UserPrompt(req), timeout |-> PROVIDER_TIMEOUT]

\* The fallback of lines 182-197.
Fallback(req) ==
    JContent(
        JStr(req.company_name \o <<" faces significant challenges with ">>
             \o PainPointsStr(req) \o <<". ">>
             \o <<"Our solution delivers measurable ROI through automation and intelligence.">>),
        JStr(<<"Our platform provides enterprise-grade capabilities tailored to your specific needs, streamlining operations and accelerating revenue growth.">>),
        JRoi(JNum(500000), JNum(3)),
        JStr(<<"Schedule a technical deep-dive call within 3 business days.">>))

\* The try block and its three except clauses: what the function returns
\* once the provider call has ended with `ended`.
generate_proposal_content(req, ended) ==
    IF ended.kind = "error"
    THEN Fallback(req)
    ELSE LET raw == IF ended.text.kind \in {"none", "empty"}
                    THEN JsonText(EmptyContent) ELSE ended.text
             parsed == JsonLoads(raw)
         IN  IF parsed.ok THEN parsed.value ELSE Fallback(req)

(***************************************************************************)
(* Instants and their renderings                                           *)
(***************************************************************************)
\* Instants datetime.now(timezone.utc) may return.
Instants ==
    [year : {2026}, month : {1, 11}, day : {6}, hour : {0, 23}, minute : {59},
     second : {5}, microsecond : {0, 123456}]

NoInstant ==
    [year |-> 0, month |-> 0, day |-> 0, hour |-> 0, minute |-> 0, second |-> 0,
     microsecond |-> 0]

DigitStr(d) ==
    CASE d = 0 -> "0" [] d = 1 -> "1" [] d = 2 -> "2" [] d = 3 -> "3"
      [] d = 4 -> "4" [] d = 5 -> "5" [] d = 6 -> "6" [] d = 7 -> "7"
      [] d = 8 -> "8" [] d = 9 -> "9"

\* n in decimal, zero-padded to w digits.
RECURSIVE Pad(_, _)
Pad(n, w) == IF w = 0 THEN <<>> ELSE Append(Pad(n \div 10, w - 1), DigitStr(n % 10))

\* strftime with day and month swapped ('%Y%d%m-%H%M%S').
StrftimeDayFirstMutant(t) ==
    Pad(t.year, 4) \o Pad(t.day, 2) \o Pad(t.month, 2) \o <<"-">>
    \o Pad(t.hour, 2) \o Pad(t.minute, 2) \o Pad(t.second, 2)

\* now.strftime('%Y%m%d-%H%M%S')
Strftime(t) ==
    Pad(t.year, 4) \o Pad(t.month, 2) \o Pad(t.day, 2) \o <<"-">>
    \o Pad(t.hour, 2) \o Pad(t.minute, 2) \o Pad(t.second, 2)

\* now.isoformat() of an aware UTC datetime.
IsoFormat(t) ==
    Pad(t.year, 4) \o <<"-">> \o Pad(t.month, 2) \o <<"-">> \o Pad(t.day, 2)
    \o <<"T">> \o Pad(t.hour, 2) \o <<":">> \o Pad(t.minute, 2) \o <<":">>
    \o Pad(t.second, 2)
    \o (IF t.microsecond # 0 THEN <<".">> \o Pad(t.microsecond, 6) ELSE <<>>)
    \o <<"+", "0", "0", ":", "0", "0">>

\* f"PROP-{now.strftime('%Y%m%d-%H%M%S')}"
ProposalId(t) == <<"P", "R", "O", "P", "-">> \o Strftime(t)

\* f"/proposals/{proposal_id}.pdf"
PdfUrl(proposal_id) == <<"/proposals/">> \o proposal_id \o <<".pdf">>

(***************************************************************************)
(* create_proposal                                                         *)
(***************************************************************************)
HTTP_201_CREATED == 201

HTTP_422_UNPROCESSABLE == 422

HTTP_500_INTERNAL_SERVER_ERROR == 500

\* global_exception_handler
InternalServerError ==
    [status |-> HTTP_500_INTERNAL_SERVER_ERROR,
     body |-> [detail |-> "An internal server error occurred."]]

\* FastAPI's answer to a body that fails validation.
UnprocessableEntity(errors) ==
    [status |-> HTTP_422_UNPROCESSABLE, body |-> [detail |-> errors]]

\* ProposalResponse(...) at lines 297-306: content.get on a value that is no
\* dict raises AttributeError; a str field given a non-str, or roi_calculation
\* given a non-dict, raises pydantic's ValidationError.  Either is answered by
\* global_exception_handler.
ProposalResponse(cont, tiers, t) ==
    IF cont.t # "object" THEN InternalServerError
    ELSE LET es  == DictGet(cont, "executive_summary", JStr(<<>>))
             so  == DictGet(cont, "solution_overview", JStr(<<>>))
             roi == DictGet(cont, "roi_calculation", EmptyRoi)
             ns  == DictGet(cont, "next_steps", JStr(<<>>))
         IN  IF es.t # "string" \/ so.t # "string" \/ ns.t # "string"
                \/ roi.t # "object"
             THEN InternalServerError
             ELSE [status |-> HTTP_201_CREATED,
                   body |-> [proposal_id |-> ProposalId(t),
                             executive_summary |-> es.s,
                             solution_overview |-> so.s,
                             pricing_tiers |-> tiers,
                             roi_calculation |-> roi,
                             next_steps |-> ns.s,
                             pdf_url |-> PdfUrl(ProposalId(t)),
                             generated_at |-> IsoFormat(t)]]

(***************************************************************************)
(* The event loop                                                          *)
(***************************************************************************)
Conns == 1..MaxConns

Routes == {"POST /api/v1/proposals", "GET /", "GET /health", "GET /api/v1/stats"}

NoConn == [route |-> "", state |-> "closed", status |-> 0]

\* No handler is running: the event loop is free to start one.
LoopFree == 0

LoopIdle ==
    /\ conns = [c \in Conns |-> NoConn]
    /\ running = LoopFree

(***************************************************************************)
(* Spec: one POST /api/v1/proposals request from arrival to response       *)
(***************************************************************************)
NoBody == [BaseBody EXCEPT !.company_name = AbsentText]

NoRequest == ProposalRequest(NoBody)

NoCall == [user_prompt |-> UserPrompt(NoRequest), timeout |-> 0]

NoResponse == [status |-> 0, body |-> [detail |-> ""]]

\* BASE_PRICE values the server process is started with.
ServerBasePrices == {v \in EnvVars : Len(v.text) <= 1}

ApiKeys == {Unset, [set |-> TRUE, text |-> <<>>], [set |-> TRUE, text |-> <<"s", "k">>]}

NoOutcome == [kind |-> "none", error |-> "", text |-> NoText]

PipelineIdle ==
    /\ body = NoBody
    /\ pc = "idle"
    /\ request = NoRequest
    /\ call = NoCall
    /\ outcome = NoOutcome
    /\ content = JNull
    /\ pricing = NotQuoted
    /\ now = NoInstant
    /\ response = NoResponse
    /\ providerCalls = 0
    /\ pricingCalls = 0

Init ==
    /\ env \in [BASE_PRICE : ServerBasePrices, OPENAI_API_KEY : ApiKeys]
    /\ quotes = [u \in UrgencyInputs |-> NotQuoted]
    /\ PipelineIdle
    /\ LoopIdle

\* The request arrives.  FastAPI builds ProposalRequest from the body: a body
\* that fails validation is answered 422 and create_proposal is not called;
\* otherwise create_proposal runs up to the provider call.
Receive(b) ==
    /\ pc = "idle"
    /\ body' = b
    /\ IF ValidationErrors(b) # {}
       THEN /\ response' = UnprocessableEntity(ValidationErrors(b))
            /\ pc' = "done"
            /\ UNCHANGED <<request, call, providerCalls>>
       ELSE /\ request' = ProposalRequest(b)
            /\ call' = ProviderCall(ProposalRequest(b))
            /\ providerCalls' = providerCalls + 1
            /\ pc' = "calling"
            /\ UNCHANGED response
    /\ UNCHANGED <<env, quotes, outcome, content, pricing, now, pricingCalls, loopVars>>

\* The provider call ends with `outcome`; the rest of create_proposal runs:
\* the content, the pricing tiers, the instant `t`, the response.
ProviderReturns(o, t) ==
    /\ pc = "calling"
    /\ o \in ProviderOutcomes(env)
    /\ outcome' = o
    /\ LET cont   == generate_proposal_content(request, o)
           priced == generate_pricing_tiers(request.urgency, env.BASE_PRICE)
       IN  /\ content' = cont
           /\ pricing' = priced
           /\ pricingCalls' = pricingCalls + 1
           /\ IF priced.raised
              THEN /\ response' = InternalServerError
                   /\ UNCHANGED now
              ELSE /\ now' = t
                   /\ response' = ProposalResponse(cont, priced.tiers, t)
    /\ call' = NoCall
    /\ pc' = "done"
    /\ UNCHANGED <<env, quotes, body, request, providerCalls, loopVars>>

Next ==
    \/ \E b \in Bodies : Receive(b)
    \/ \E o \in FailureOutcomes \cup CompletionOutcomes, t \in Instants :
            ProviderReturns(o, t)

Spec == Init /\ [][Next]_vars

(***************************************************************************)
(* PricingSpec: generate_pricing_tiers as a pure function of the urgency   *)
(* and of BASE_PRICE.                                                      *)
(***************************************************************************)
PricingInit ==
    /\ env \in [BASE_PRICE : EnvVars, OPENAI_API_KEY : {Unset}]
    /\ quotes = [u \in UrgencyInputs |-> NotQuoted]
    /\ PipelineIdle
    /\ LoopIdle

Quote(u) ==
    /\ quotes[u] = NotQuoted
    /\ quotes' = [quotes EXCEPT ![u] = generate_pricing_tiers(u, env.BASE_PRICE)]
    /\ UNCHANGED <<env, pipelineVars, loopVars>>

PricingNext == \E u \in UrgencyInputs : Quote(u)

PricingSpec == PricingInit /\ [][PricingNext]_vars

(***************************************************************************)
(* LoopSpec: concurrent requests on the server's event loop.               *)
(* uvicorn.run("server:app", ...) starts one process with one event loop.  *)
(* Every route is an `async def` run on that loop; a handler holds the     *)
(* loop until it returns or awaits something that suspends.  The handlers  *)
(* of GET /, /health and /api/v1/stats await nothing.  create_proposal     *)
(* awaits generate_proposal_content, a coroutine that calls the            *)
(* synchronous client (client = OpenAI(...)) without awaiting: the call    *)
(* returns only when the provider has answered or the timeout has passed,  *)
(* and the coroutine never suspends.                                       *)
(***************************************************************************)
LoopInit ==
    /\ env \in [BASE_PRICE : {Unset}, OPENAI_API_KEY : ApiKeys]
    /\ quotes = [u \in UrgencyInputs |-> NotQuoted]
    /\ PipelineIdle
    /\ LoopIdle

\* A client's request reaches the server.
Arrive(c, route) ==
    /\ conns[c].state = "closed"
    /\ conns' = [conns EXCEPT ![c] = [route |-> route, state |-> "pending", status |-> 0]]
    /\ UNCHANGED <<running, env, quotes, pipelineVars>>

\* The loop runs the handler of a GET route to its return (the STAT_*
\* variables read by get_stats are left at their defaults).
ServeGet(c) ==
    /\ running = LoopFree
    /\ conns[c].state = "pending"
    /\ conns[c].route # "POST /api/v1/proposals"
    /\ conns' = [conns EXCEPT ![c].state = "done", ![c].status = 200]
    /\ UNCHANGED <<running, env, quotes, pipelineVars>>

\* The loop runs create_proposal up to the provider call, which the handler
\* makes on the loop's own thread.
StartProposal(c) ==
    /\ running = LoopFree
    /\ conns[c].state = "pending"
    /\ conns[c].route = "POST /api/v1/proposals"
    /\ conns' = [conns EXCEPT ![c].state = "in_provider_call"]
    /\ running' = c
    /\ UNCHANGED <<env, quotes, pipelineVars>>

\* The provider call returns or raises (at the latest when its timeout
\* passes); create_proposal runs to its return and frees the loop.
FinishProposal(c, o) ==
    /\ running = c
    /\ conns[c].state = "in_provider_call"
    /\ o \in ProviderOutcomes(env)
    /\ conns' = [conns EXCEPT
                    ![c].state = "done",
                    ![c].status =
                        ProposalResponse(
                            generate_proposal_content(ProposalRequest(BaseBody), o),
                            generate_pricing_tiers("medium", env.BASE_PRICE).tiers,
                            NoInstant).status]
    /\ running' = LoopFree
    /\ UNCHANGED <<env, quotes, pipelineVars>>

\* The loop runs the handler of a pending request.
Serve(c) == ServeGet(c) \/ StartProposal(c)

LoopNext ==
    \/ \E c \in Conns, r \in Routes : Arrive(c, r)
    \/ \E c \in Conns : ServeGet(c)
    \/ \E c \in Conns : StartProposal(c)
    \/ \E c \in Conns, o \in FailureOutcomes \cup CompletionOutcomes : FinishProposal(c, o)

LoopSpec == LoopInit /\ [][LoopNext]_vars

(***************************************************************************)
(* Properties                                                              *)
(***************************************************************************)
ListFields == {"pain_points", "decision_makers", "competitors"}

\* The request has been answered 201 by create_proposal.
Created == pc = "done" /\ response.status = 201

\* a is a prefix of s.
StartsWith(s, a) == Len(s) >= Len(a) /\ SubSeq(s, 1, Len(a)) = a

\* a occurs in s as a contiguous run.
Contains(s, a) ==
    \E i \in 1..(Len(s) - Len(a) + 1) : SubSeq(s, i, i + Len(a) - 1) = a

\* C1: a request that breaks a validation rule (company_name missing or
\* shorter than 2 characters, a list field longer than 20 entries, urgency
\* outside low/medium/high) is answered 422, and neither the provider call nor
\* generate_pricing_tiers is started for it.
C1_Violates(b) ==
    \/ ~b.company_name.present
    \/ Len(b.company_name.value) < 2
    \/ \E k \in ListFields : b[k].present /\ Len(b[k].value) > 20
    \/ b.urgency.present /\ b.urgency.value \notin {"low", "medium", "high"}

C1_InvalidRequestRejected ==
    (pc # "idle" /\ C1_Violates(body)) =>
        /\ pc = "done"
        /\ response.status = 422
        /\ providerCalls = 0
        /\ pricingCalls = 0

C1_Witness ==
    /\ pc = "done"
    /\ body.pain_points.present
    /\ Len(body.pain_points.value) = 21
    /\ response.status = 422
    /\ providerCalls = 0

\* C2: for a validated request whose provider call fails (an error of any
\* kind, a missing credential, or text that does not parse as JSON),
\* generate_proposal_content returns the fallback (roi_calculation =
\* {annual_savings: 500000, payback_period_months: 3}, executive_summary
\* naming the company) and create_proposal answers 201.
C2_ProviderFailed ==
    \/ outcome.kind = "error"
    \/ outcome.kind = "completion" /\ outcome.text.kind = "malformed"

C2_IsFallback(c) ==
    /\ c.t = "object"
    /\ c.roi_calculation = JRoi(JNum(500000), JNum(3))
    /\ c.executive_summary.t = "string"
    /\ StartsWith(c.executive_summary.s, request.company_name)

C2_FailureGivesFallbackAnd201 ==
    (pc = "done" /\ providerCalls > 0 /\ C2_ProviderFailed) =>
        /\ C2_IsFallback(content)
        /\ response.status = 201

\* The part of C2 that is about generate_proposal_content alone.
C2_FailureGivesFallback ==
    (pc = "done" /\ providerCalls > 0 /\ C2_ProviderFailed) => C2_IsFallback(content)

\* C3 as stated: for every base price B > 0, the Professional price is
\* strictly ordered high > medium > low.
C3_Quoted ==
    \A u \in {"low", "medium", "high"} : quotes[u] # NotQuoted /\ ~quotes[u].raised

C3_BasePrice == PyInt(Getenv(env.BASE_PRICE, DEFAULT_BASE_PRICE)).val

C3_Professional(u) == quotes[u].tiers[2].price

C3_StrictlyOrdered ==
    (C3_Quoted /\ C3_BasePrice > 0) =>
        /\ C3_Professional("high") > C3_Professional("medium")
        /\ C3_Professional("medium") > C3_Professional("low")

\* C3 as amended: for every base price B > 0 the Professional price satisfies
\* high >= medium > low (so high > low), and high > medium as soon as B >= 5.
C3_OrderedUpToTruncation ==
    (C3_Quoted /\ C3_BasePrice > 0) =>
        /\ C3_Professional("high") >= C3_Professional("medium")
        /\ C3_Professional("medium") > C3_Professional("low")
        /\ C3_Professional("high") > C3_Professional("low")
        /\ (C3_BasePrice >= 5 =>
                C3_Professional("high") > C3_Professional("medium"))

C3_Witness ==
    /\ C3_Quoted
    /\ C3_BasePrice >= 5
    /\ C3_Professional("high") > C3_Professional("medium")
    /\ C3_Professional("medium") > C3_Professional("low")

\* The multipliers the claims speak of, in tenths: 0.8, 1.0, 1.2.
ClaimedMultiplier(u) ==
    CASE u = "low" -> 8 [] u = "medium" -> 10 [] u = "high" -> 12

C4_Returned(u) == quotes[u] # NotQuoted /\ ~quotes[u].raised

\* p is x/10 rounded to the nearest integer, ties to even.
IsRounded(p, x) ==
    \/ 2 * Abs(10 * p - x) < 10
    \/ 2 * Abs(10 * p - x) = 10 /\ p % 2 = 0

\* p is x/10 truncated toward zero.
IsTruncated(p, x) ==
    IF x >= 0 THEN 10 * p <= x /\ x < 10 * p + 10
    ELSE 10 * p >= x /\ x > 10 * p - 10

\* Starter = round(Professional * 0.5, 2) and Enterprise =
\* round(Professional * 2, 2), prices in hundredths.
C4_OuterTiers(tiers) ==
    /\ 2 * tiers[1].price = tiers[2].price
    /\ tiers[3].price = 2 * tiers[2].price

\* C4 as stated: Professional = round(B * multiplier(u)), Starter =
\* round(Professional * 0.5, 2), Enterprise = round(Professional * 2, 2).
C4_ProfessionalRounded ==
    \A u \in {"low", "medium", "high"} :
        C4_Returned(u) =>
            /\ quotes[u].tiers[2].price % 100 = 0
            /\ IsRounded(quotes[u].tiers[2].price \div 100,
                         C3_BasePrice * ClaimedMultiplier(u))
            /\ C4_OuterTiers(quotes[u].tiers)

\* C4 as amended: Professional = int(B * multiplier(u)), the product
\* truncated toward zero; Starter and Enterprise as stated.
C4_ProfessionalTruncated ==
    \A u \in {"low", "medium", "high"} :
        C4_Returned(u) =>
            /\ quotes[u].tiers[2].price % 100 = 0
            /\ IsTruncated(quotes[u].tiers[2].price \div 100,
                           C3_BasePrice * ClaimedMultiplier(u))
            /\ C4_OuterTiers(quotes[u].tiers)

C4_Witness ==
    /\ C4_Returned("low")
    /\ C3_BasePrice = 7
    /\ quotes["low"].tiers[2].price = 500
    /\ quotes["low"].tiers[1].price = 250
    /\ quotes["low"].tiers[3].price = 1000

\* C5: a 201 response carries exactly three tiers, Starter, Professional,
\* Enterprise in this order, and Professional alone is recommended, whether
\* the content came from the provider or from the fallback.
C5_ThreeTiersProfessionalRecommended ==
    Created =>
        LET tiers == response.body.pricing_tiers
        IN  /\ Len(tiers) = 3
            /\ [i \in 1..3 |-> tiers[i].name] = <<"Starter", "Professional", "Enterprise">>
            /\ {i \in 1..3 : tiers[i].recommended} = {2}

C5_Witness ==
    /\ Created
    /\ outcome.kind = "completion"
    /\ content = GoodContent
    /\ request.urgency = "low"
    /\ Len(response.body.pricing_tiers) = 3

\* C6: in a 201 response proposal_id is 'PROP-' followed by YYYYMMDD-HHMMSS
\* of one instant, generated_at is the ISO-8601 rendering of that instant,
\* and pdf_url contains proposal_id.
NumberAt(s, i, n) == DigitsValue(SubSeq(s, i, i + n - 1))

AllDigits(s, i, n) == \A k \in i..(i + n - 1) : s[k] \in DigitChars

C6_IdTimestampUrlAgree ==
    Created =>
        LET id  == response.body.proposal_id
            iso == response.body.generated_at
        IN  /\ Len(id) = 20
            /\ SubSeq(id, 1, 5) = <<"P", "R", "O", "P", "-">>
            /\ AllDigits(id, 6, 8) /\ id[14] = "-" /\ AllDigits(id, 15, 6)
            /\ Len(iso) \in {25, 32}
            /\ <<iso[5], iso[8], iso[11], iso[14], iso[17]>> = <<"-", "-", "T", ":", ":">>
            /\ SubSeq(iso, Len(iso) - 5, Len(iso)) = <<"+", "0", "0", ":", "0", "0">>
            /\ NumberAt(id, 6, 4) = now.year /\ NumberAt(iso, 1, 4) = now.year
            /\ NumberAt(id, 10, 2) = now.month /\ NumberAt(iso, 6, 2) = now.month
            /\ NumberAt(id, 12, 2) = now.day /\ NumberAt(iso, 9, 2) = now.day
            /\ NumberAt(id, 15, 2) = now.hour /\ NumberAt(iso, 12, 2) = now.hour
            /\ NumberAt(id, 17, 2) = now.minute /\ NumberAt(iso, 15, 2) = now.minute
            /\ NumberAt(id, 19, 2) = now.second /\ NumberAt(iso, 18, 2) = now.second
            /\ IF Len(iso) = 32
               THEN iso[20] = "." /\ NumberAt(iso, 21, 6) = now.microsecond
               ELSE now.microsecond = 0
            /\ Contains(response.body.pdf_url, id)

C6_Witness ==
    /\ Created
    /\ now.month = 11 /\ now.hour = 23 /\ now.microsecond = 123456
    /\ Len(response.body.generated_at) = 32

\* C7: with the other fields valid, company_name is accepted exactly when its
\* length after trimming whitespace is between 2 and 200; a name of
\* whitespace only is answered 422.
C7_OnlyNameVaries == body = [BaseBody EXCEPT !.company_name = body.company_name]

C7_TrimmedLengthDecides ==
    (pc # "idle" /\ C7_OnlyNameVaries) =>
        ((response.status # 422) <=>
            /\ body.company_name.present
            /\ Len(Strip(body.company_name.value)) >= 2
            /\ Len(Strip(body.company_name.value)) <= 200)

\* C8: while one create_proposal waits on the provider call, every other
\* request the server holds can be served.
C8_OthersServedWhileWaiting ==
    \A c \in Conns, d \in Conns :
        (conns[c].state = "in_provider_call" /\ conns[d].state = "pending") =>
            ENABLED Serve(d)

\* C9: generate_pricing_tiers never raises: for every urgency, in or outside
\* low/medium/high, and every BASE_PRICE, unset or set to any text, it returns
\* three tiers.
C9_PricingNeverRaises ==
    \A u \in UrgencyInputs :
        quotes[u] # NotQuoted => (~quotes[u].raised /\ Len(quotes[u].tiers) = 3)

\* C10: whatever text the provider returns, the content handed to the
\* assembler has the shape of the fallback (string executive_summary,
\* solution_overview and next_steps, roi_calculation with annual_savings and
\* payback_period_months), and the response is neither a 500 nor one with
\* empty fields.
C10_HasShape(c) ==
    /\ c.t = "object"
    /\ c.executive_summary.t = "string"
    /\ c.solution_overview.t = "string"
    /\ c.next_steps.t = "string"
    /\ c.roi_calculation.t = "object"
    /\ c.roi_calculation.annual_savings # JMissing
    /\ c.roi_calculation.payback_period_months # JMissing

C10_ProviderTextGivesShapedContent ==
    (pc = "done" /\ providerCalls > 0 /\ outcome.kind = "completion"
        /\ outcome.text.kind # "none" /\ ~pricing.raised) =>
        /\ C10_HasShape(content)
        /\ response.status = 201
        /\ response.body.executive_summary # <<>>
        /\ response.body.solution_overview # <<>>
        /\ response.body.next_steps # <<>>

====
